---- MODULE Spec2Model ----
(***************************************************************************)
(* Flame chart: weighted tree -> partition layout -> zoom state machine.   *)
(* The model follows the first revision in src/src/flamechart/flamechart.ts *)
(* (lines 1-371) and the helpers hideSiblings / show / fadeAncestors of     *)
(* src/unnamed/part_000 (flamechartUtils).  JavaScript numbers are modelled *)
(* as exact rationals <<numerator, denominator>>; floating-point rounding   *)
(* is not modelled.                                                         *)
(***************************************************************************)
EXTENDS Integers, Sequences, FiniteSets, TLC

\* ---------------------------------------------------------------- bounds
MaxNodes == 4
MaxValue == 2
MaxStaleZooms == 1
MaxResizes == 3
MaxUiNodes == 3
MaxTextNodes == 2
MaxTextResizes == 1
MaxStaleNodes == 3
MaxViewportNodes == 2
MaxViewportResizes == 2

\* ------------------------------------------------------ program constants
RectHeight == 15

MaxWidth == 80

\* body.clientWidth values the page may be loaded with
ClientWidths == {100}

\* body.clientWidth values a resize of the window may leave
ViewportWidths == {0, 100, 200}

\* null / undefined object reference
Null == 0

\* ------------------------------------------------------ JavaScript numbers
\* a declared `value` of the input: a number <<v>>, or NaN / missing <<>>
NaN == <<>>

Num(v) == <<v>>

\* the values INode.value: number takes in the input
NumberValues == {Num(v) : v \in 0..MaxValue}

\* the same, and a `value` that is missing or not a number
JsValues == NumberValues \cup {NaN}

\* a - b, with NaN (or undefined) poisoning the result
JsSub(a, b) == IF a = NaN \/ b = NaN THEN NaN ELSE Num(a[1] - b[1])

\* a + b (childrenValueTotal += child.value)
JsAdd(a, b) == IF a = NaN \/ b = NaN THEN NaN ELSE Num(a[1] + b[1])

\* +x || 0
ToNumberOrZero(a) == IF a = NaN THEN 0 ELSE a[1]

\* exact rationals
Abs(n) == IF n < 0 THEN 0 - n ELSE n

RECURSIVE GCD(_, _)
GCD(a, b) == IF b = 0 THEN a ELSE GCD(b, a % b)

Norm(n, d) ==
    LET s == IF d < 0 THEN 0 - 1 ELSE 1
        g == GCD(Abs(n), Abs(d))
    IN  <<(s * n) \div g, (s * d) \div g>>

Rat(n) == <<n, 1>>

RAdd(a, b) == Norm(a[1] * b[2] + b[1] * a[2], a[2] * b[2])

RSub(a, b) == Norm(a[1] * b[2] - b[1] * a[2], a[2] * b[2])

RMul(a, b) == Norm(a[1] * b[1], a[2] * b[2])

RDiv(a, b) == Norm(a[1] * b[2], a[2] * b[1])

RLt(a, b) == a[1] * b[2] < b[1] * a[2]

RLe(a, b) == a[1] * b[2] <= b[1] * a[2]

\* ------------------------------------------------------------- sequences
RECURSIVE SumSeq(_)
SumSeq(s) == IF s = <<>> THEN 0 ELSE Head(s) + SumSeq(Tail(s))

RECURSIVE JsSumSeq(_)
JsSumSeq(s) == IF s = <<>> THEN Num(0) ELSE JsAdd(Head(s), JsSumSeq(Tail(s)))

RECURSIVE Flatten(_)
Flatten(ss) == IF ss = <<>> THEN <<>> ELSE Head(ss) \o Flatten(Tail(ss))

RECURSIVE AscendingSeq(_)
AscendingSeq(S) ==
    IF S = {} THEN <<>>
    ELSE LET m == CHOOSE x \in S : \A y \in S : x <= y
         IN  <<m>> \o AscendingSeq(S \ {m})

IndexOf(s, e) == CHOOSE i \in 1..Len(s) : s[i] = e

SeqRange(s) == {s[i] : i \in 1..Len(s)}

\* --------------------------------------------------------------- strings
\* A string is the sequence of its characters.
Alphabet == {"a", "b", "A", "B"}

\* String.prototype.toLocaleLowerCase, character by character
LowerChar(c) == CASE c = "A" -> "a" [] c = "B" -> "b" [] OTHER -> c

\* a lower-casing that leaves every character as it is
ToLocaleLowerCase_Identity(s) == s

ToLocaleLowerCase(s) == [k \in 1..Len(s) |-> LowerChar(s[k])]

\* String.prototype.indexOf: the first 0-based position of t in s, or -1
StringIndexOf(s, t) ==
    LET hits == {i \in 0..(Len(s) - Len(t)) : SubSeq(s, i + 1, i + Len(t)) = t}
    IN  IF hits = {} THEN 0 - 1 ELSE CHOOSE i \in hits : \A j \in hits : i <= j

\* ToIntegerOrInfinity on a finite number: truncation toward zero
Trunc(r) == IF r[1] >= 0 THEN r[1] \div r[2] ELSE 0 - ((0 - r[1]) \div r[2])

\* Math.ceil
Ceil(r) == IF r[1] % r[2] = 0 THEN r[1] \div r[2] ELSE (r[1] \div r[2]) + 1

\* String.prototype.slice(0, end): a negative end counts from the end of s
Slice(s, end) ==
    LET to == IF end < 0 THEN (IF Len(s) + end < 0 THEN 0 ELSE Len(s) + end)
              ELSE (IF end > Len(s) THEN Len(s) ELSE end)
    IN  SubSeq(s, 1, to)

Ellipsis == <<".", ".", ".">>

\* the grave accent (U+0060), the character that ends a module name
Grave == "grave"

\* String.prototype.charCodeAt for the characters used in names
CharCode(c) ==
    CASE c = "a" -> 97 [] c = "b" -> 98 [] c = "A" -> 65 [] c = "B" -> 66
      [] c = Grave -> 96 [] c = "(" -> 40 [] OTHER -> 46

\* the positions (1-based) of character c in s
Positions(s, c) == {i \in 1..Len(s) : s[i] = c}

\* s.split(c): the last piece
LastPiece(s, c) ==
    IF Positions(s, c) = {} THEN s
    ELSE LET last == CHOOSE i \in Positions(s, c) : \A j \in Positions(s, c) : j <= i
         IN  SubSeq(s, last + 1, Len(s))

\* s.split(c)[0]: the first piece
FirstPiece(s, c) ==
    IF Positions(s, c) = {} THEN s
    ELSE LET first == CHOOSE i \in Positions(s, c) : \A j \in Positions(s, c) : i <= j
         IN  SubSeq(s, 1, first - 1)

\* span * v for a fraction v = <<num, den>> in 0..1, as the integer part and
\* the remainder over den: <<q, r>> with span * num = q * den + r
RECURSIVE Times(_, _)
Times(span, v) ==
    IF span = 0 THEN <<0, 0>>
    ELSE LET h == Times(span \div 2, v)
             r == 2 * h[2] + (IF span % 2 = 1 THEN v[1] ELSE 0)
         IN  <<2 * h[1] + (r \div v[2]), r % v[2]>>

\* Math.round(span * v): halves are rounded up
RoundTimes(span, v) ==
    LET t == Times(span, v) IN t[1] + (IF 2 * t[2] >= v[2] THEN 1 ELSE 0)

\* --------------------------------------------------------------- color.ts
MAX_CHAR == 6

\* the loop of generateHash from index i (0-based) on; acc = [hash, maxHash,
\* weight] with mod = 10 and weight *= 0.70, all three held as integers in
\* units of 10^-6 (0.7^i is a whole number of them for i <= 7)
RECURSIVE HashLoop(_, _, _)
HashLoop(s, i, acc) ==
    IF i >= Len(s) \/ i > MAX_CHAR THEN acc
    ELSE HashLoop(s, i + 1,
                  [hash |-> acc.hash + acc.weight * (CharCode(s[i + 1]) % 10),
                   maxHash |-> acc.maxHash + acc.weight * (10 - 1),
                   weight |-> (acc.weight * 7) \div 10])

\* Color.generateHash(name): a number in 0..1
generateHash(s) ==
    IF s = <<>> THEN Rat(0)
    ELSE LET acc == HashLoop(s, 0, [hash |-> 0, maxHash |-> 0, weight |-> 1000000])
         IN  IF acc.maxHash > 0 THEN Norm(acc.hash, acc.maxHash) ELSE Rat(acc.hash)

\* the name colorHash hashes: the module name before the last grave accent
\* and the extra info from the first "(" on dropped
StrippedName(s) == FirstPiece(LastPiece(s, Grave), "(")

\* the hue of a library type; Color.colorHue is "" and gives "warm"
Hue(libtype) ==
    CASE libtype = "Kernel" -> "green"
      [] libtype = "IO" -> "red"
      [] libtype = "File" -> "yellow"
      [] libtype = "JIT" -> "purple"
      [] libtype = "Networking" -> "blue"
      [] OTHER -> "warm"

\* Color.colorHash(name, libtype): <<r, g, b>>
colorHash(s, libtype) ==
    LET vector == IF s = <<>> THEN Rat(0) ELSE generateHash(StrippedName(s))
        part(base, span) == base + RoundTimes(span, vector)
        rest(span) == RoundTimes(span, <<vector[2] - vector[1], vector[2]>>)
        hue == Hue(libtype)
    IN  CASE hue = "red" -> <<part(200, 55), part(50, 80), part(50, 80)>>
          [] hue = "yellow" -> <<part(175, 55), part(175, 55), part(50, 20)>>
          [] hue = "green" -> <<part(50, 60), part(200, 55), part(50, 60)>>
          [] hue = "purple" -> <<part(100, 27), part(50, 80), part(200, 55)>>
          [] hue = "blue" -> <<part(30, 10), part(30, 10), part(200, 55)>>
          [] OTHER -> <<part(200, 55), rest(230), rest(55)>>

\* the fill "red" of a highlighted rectangle
Red == <<255, 0, 0>>

\* ------------------------------------------------------- input (raw data)
\* A raw tree has nodes 1..n, node 1 the root, par[i] < i the parent of i,
\* val[i] the declared `value`; a node's children are listed by ascending id.
ParentMaps(n) == {p \in [2..n -> 1..n] : \A i \in 2..n : p[i] < i}

RawTrees(values) ==
    UNION {{[n |-> n, par |-> p, val |-> v] :
                p \in ParentMaps(n), v \in [1..n -> values]} : n \in 1..MaxNodes}

RawChildren(raw, i) == AscendingSeq({j \in 2..raw.n : raw.par[j] = i})

\* the trees the event handlers other than onZoom are exercised on: at most
\* MaxUiNodes nodes, a positive root value, no value below the children's sum
UiTrees ==
    {t \in RawTrees(NumberValues) :
        /\ t.n <= MaxUiNodes
        /\ t.val[1][1] > 0
        /\ \A i \in 1..t.n :
               t.val[i][1] >= SumSeq([k \in 1..Len(RawChildren(t, i)) |->
                                         t.val[RawChildren(t, i)[k]][1]])}

\* the shapes of UiTrees, one tree each: every leaf of value 1, every other
\* node of the value of its children (search does not read the values)
UnitTrees ==
    {t \in UiTrees :
        \A i \in 1..t.n :
            t.val[i][1] = IF RawChildren(t, i) = <<>> THEN 1
                          ELSE SumSeq([k \in 1..Len(RawChildren(t, i)) |->
                                          t.val[RawChildren(t, i)[k]][1]])}

\* node names and search terms
SearchNames == {<<"A">>, <<"a", "B">>, <<"b">>}

SearchTerms == {<<>>, <<"a">>, <<"B">>, <<"A", "b">>}

\* names for the labels: none, a short one, one longer than a rectangle
TextNames == {<<>>, <<"a", "b">>, <<"a", "b", "A", "B", "a", "b", "A", "B", "a">>}

\* glyph widths getComputedTextLength may report per character, in pixels
GlyphWidths == {0, 12, 40}

\* the tree of an earlier load, whose node objects a caller may still hold
StaleRaw ==
    [n |-> 3, par |-> (2 :> 1 @@ 3 :> 1), val |-> (1 :> Num(2) @@ 2 :> Num(1) @@ 3 :> Num(1))]

\* ------------------------------------------------------------ d3.hierarchy
RECURSIVE NodeDepth(_, _)
NodeDepth(raw, i) == IF i = 1 THEN 0 ELSE NodeDepth(raw, raw.par[i]) + 1

HierarchyDepth(raw) == [i \in 1..raw.n |-> NodeDepth(raw, i)]

SetMax(S) == CHOOSE x \in S : \A y \in S : y <= x

RECURSIVE NodeHeight(_, _)
NodeHeight(raw, i) ==
    LET kids == {j \in 2..raw.n : raw.par[j] = i}
    IN  IF kids = {} THEN 0 ELSE 1 + SetMax({NodeHeight(raw, j) : j \in kids})

HierarchyHeight(raw) == [i \in 1..raw.n |-> NodeHeight(raw, i)]

\* --------------------------------------------------------------- root.sum
\* the callback returning d.value itself, the children's values not taken off
SumCallback_NoSubtract(raw, i) == raw.val[i]

\* the callback given to root.sum: d.value - sum of the children's d.value
SumCallback(raw, i) ==
    LET kids == RawChildren(raw, i)
    IN  JsSub(raw.val[i], JsSumSeq([k \in 1..Len(kids) |-> raw.val[kids[k]]]))

\* d3 node.sum: node.value = (+callback(node.data) || 0) + sum of children's node.value
SelfValue(raw, i) == ToNumberOrZero(SumCallback(raw, i))

RECURSIVE NodeValue(_, _)
NodeValue(raw, i) ==
    LET kids == RawChildren(raw, i)
    IN  SelfValue(raw, i) + SumSeq([k \in 1..Len(kids) |-> NodeValue(raw, kids[k])])

NodeSum(raw) == [i \in 1..raw.n |-> NodeValue(raw, i)]

\* -------------------------------------------------------------- root.sort
\* d3.descending(a, b)
Descending(a, b) == IF b < a THEN 0 - 1 ELSE IF b > a THEN 1 ELSE 0

\* d3.descending(a.height, b.height) && d3.descending(a.value, b.value)
Compare(a, b, height, value) ==
    LET h == Descending(height[a], height[b])
    IN  IF h = 0 THEN 0 ELSE Descending(value[a], value[b])

Reverse(s) == [i \in 1..Len(s) |-> s[Len(s) + 1 - i]]

\* Array.prototype.sort on a short array: the length of the initial run
RECURSIVE RunLength(_, _, _, _, _)
RunLength(a, idx, isDescending, height, value) ==
    IF idx > Len(a) THEN idx - 1
    ELSE LET order == Compare(a[idx], a[idx - 1], height, value)
         IN  IF (isDescending /\ order >= 0) \/ (~isDescending /\ order < 0)
             THEN idx - 1
             ELSE RunLength(a, idx + 1, isDescending, height, value)

RECURSIVE BinarySearch(_, _, _, _, _, _)
BinarySearch(a, pivot, left, right, height, value) ==
    IF left >= right THEN left
    ELSE LET mid == left + ((right - left) \div 2)
         IN  IF Compare(pivot, a[mid], height, value) < 0
             THEN BinarySearch(a, pivot, left, mid, height, value)
             ELSE BinarySearch(a, pivot, mid + 1, right, height, value)

RECURSIVE BinaryInsertionSort(_, _, _, _)
BinaryInsertionSort(a, start, height, value) ==
    IF start > Len(a) THEN a
    ELSE LET pivot == a[start]
             left == BinarySearch(a, pivot, 1, start, height, value)
             moved == [i \in 1..Len(a) |->
                          IF i < left \/ i > start THEN a[i]
                          ELSE IF i = left THEN pivot ELSE a[i - 1]]
         IN  BinaryInsertionSort(moved, start + 1, height, value)

ArraySort(a, height, value) ==
    IF Len(a) < 2 THEN a
    ELSE LET isDescending == Compare(a[2], a[1], height, value) < 0
             run == RunLength(a, 3, isDescending, height, value)
             ascending == IF isDescending
                          THEN Reverse(SubSeq(a, 1, run)) \o SubSeq(a, run + 1, Len(a))
                          ELSE a
         IN  BinaryInsertionSort(ascending, run + 1, height, value)

\* ------------------------------------------------------------ d3.partition
\* treemapDice that never advances x0: every child starts at the parent's x0
TreemapDice_NoAdvance(x0, x1, parentValue, childValues, i) ==
    LET k == IF parentValue = 0 THEN Rat(0) ELSE RDiv(RSub(x1, x0), Rat(parentValue))
    IN  <<x0, RAdd(x0, RMul(Rat(childValues[i]), k))>>

\* treemapDice that gives every child the same share of the parent
TreemapDice_EqualShares(x0, x1, parentValue, childValues, i) ==
    LET k == RDiv(RSub(x1, x0), Rat(Len(childValues)))
    IN  <<RAdd(x0, RMul(Rat(i - 1), k)), RAdd(x0, RMul(Rat(i), k))>>

\* treemapDice: the i-th child's [x0, x1] inside the parent's [x0, x1];
\* k = parent.value && (x1 - x0) / parent.value
TreemapDice(x0, x1, parentValue, childValues, i) ==
    LET k == IF parentValue = 0 THEN Rat(0) ELSE RDiv(RSub(x1, x0), Rat(parentValue))
        start == RAdd(x0, RMul(Rat(SumSeq(SubSeq(childValues, 1, i - 1))), k))
    IN  <<start, RAdd(start, RMul(Rat(childValues[i]), k))>>

\* positionNode with padding 0: if (x1 < x0) x0 = x1 = (x0 + x1) / 2
PositionNode(iv) ==
    IF RLt(iv[2], iv[1])
    THEN LET m == RDiv(RAdd(iv[1], iv[2]), Rat(2)) IN <<m, m>>
    ELSE iv

\* partition.size([dx, dy]) applied to the sorted tree: node -> <<x0, x1>>
RECURSIVE Diced(_, _, _, _, _)
Diced(raw, kids, value, dx, i) ==
    IF i = 1 THEN <<Rat(0), Rat(dx)>>
    ELSE LET p == raw.par[i]
             piv == Diced(raw, kids, value, dx, p)
         IN  TreemapDice(piv[1], piv[2], value[p],
                         [k \in 1..Len(kids[p]) |-> value[kids[p][k]]],
                         IndexOf(kids[p], i))

PartitionX(raw, kids, value, dx) ==
    [i \in 1..raw.n |-> PositionNode(Diced(raw, kids, value, dx, i))]

\* node -> <<y0, y1>>: the band dy * depth / n .. dy * (depth + 1) / n
PartitionY(raw, depth, n, dy) ==
    [i \in 1..raw.n |-> <<RDiv(Rat(dy * depth[i]), Rat(n)), RDiv(Rat(dy * (depth[i] + 1)), Rat(n))>>]

\* the nodes in depth-first pre-order instead
RECURSIVE BreadthFirst_PreOrder(_, _)
BreadthFirst_PreOrder(kids, level) ==
    IF level = <<>> THEN <<>>
    ELSE <<level[1]>> \o BreadthFirst_PreOrder(kids, kids[level[1]])
                     \o BreadthFirst_PreOrder(kids, Tail(level))

\* node.descendants(): breadth-first order
RECURSIVE BreadthFirst(_, _)
BreadthFirst(kids, level) ==
    IF level = <<>> THEN <<>>
    ELSE level \o BreadthFirst(kids, Flatten([k \in 1..Len(level) |-> kids[level[k]]]))

\* d3.scaleLinear().domain([0, d]).range([0, r])
ScaleLinear(d, r) == [domain |-> d, range |-> r]

\* scale(x) = x * range / domain
ApplyScale(scale, x) ==
    IF scale.domain = Rat(0) THEN RDiv(scale.range, Rat(2))   \* degenerate domain: d3 answers the middle of the range
    ELSE RDiv(RMul(x, scale.range), scale.domain)

\* ------------------------------------------------------------ text fitting
\* Utils.getLetterLength(text): ceil(computed text length / number of
\* characters), 0 for an empty text; every glyph of the monospace font is
\* `glyph` pixels wide
GetLetterLength(textContent, glyph) ==
    IF textContent = <<>> THEN 0
    ELSE Ceil(RDiv(Rat(Len(textContent) * glyph), Rat(Len(textContent))))

\* the branch getRectText takes with every label cut, whatever its length
FitBranch_AlwaysCut(width, textLength) ==
    IF RLt(width, Rat(MaxWidth)) THEN "hidden" ELSE "cut"

\* the branch getRectText takes: no label, the whole name, or a cut name
FitBranch(width, textLength) ==
    IF RLt(width, Rat(MaxWidth)) THEN "hidden"
    ELSE IF RLt(Rat(textLength), width) THEN "whole"
    ELSE "cut"

\* the number getRectText divides by (width / this._letterLength), if it divides
FitDivisor(nodeName, rectWidth, letterLength) ==
    IF FitBranch(RSub(rectWidth, Rat(4)), Len(nodeName) * letterLength) = "cut"
    THEN <<letterLength>> ELSE <<>>

\* getRectText(node) for a rectangle rectWidth pixels wide
GetRectText(nodeName, rectWidth, letterLength) ==
    LET width == RSub(rectWidth, Rat(4))
        branch == FitBranch(width, Len(nodeName) * letterLength)
    IN  CASE branch = "hidden" -> <<>>
          [] branch = "whole" -> nodeName
          [] branch = "cut" ->
               IF letterLength = 0
               THEN nodeName \o Ellipsis      \* width / 0 is Infinity: slice keeps the whole name
               ELSE Slice(nodeName, Trunc(RSub(RDiv(width, Rat(letterLength)), Rat(3)))) \o Ellipsis

\* getOffsetY(d) without the orientation: always the icicle position
GetOffsetY_Icicle(scaleY, nodeY0, flipped, chartHeight) == ApplyScale(scaleY, nodeY0)

\* getOffsetY(d)
GetOffsetY(scaleY, nodeY0, flipped, chartHeight) ==
    LET y == ApplyScale(scaleY, nodeY0)
    IN  IF flipped THEN y ELSE RSub(RSub(Rat(chartHeight), Rat(RectHeight)), y)

\* The text elements set one after the other, in the order of `nodes`, from
\* the k-th on: a node of asName gets its name, any other node the fitted
\* label; this._letterLength is measured on the first text element whenever
\* it is still 0.  st = [texts, letter].
RECURSIVE SetTexts(_, _, _, _, _, _, _)
SetTexts(k, nodes, names, widths, asName, st, glyphWidth) ==
    IF k > Len(nodes) THEN st
    ELSE LET n == nodes[k]
         IN  IF n \in asName
             THEN SetTexts(k + 1, nodes, names, widths, asName,
                           [st EXCEPT !.texts[n] = names[n]], glyphWidth)
             ELSE LET l == IF st.letter = 0
                           THEN GetLetterLength(st.texts[nodes[1]], glyphWidth)
                           ELSE st.letter
                  IN  SetTexts(k + 1, nodes, names, widths, asName,
                               [texts |-> [st.texts EXCEPT ![n] = GetRectText(names[n], widths[n], l)],
                                letter |-> l],
                               glyphWidth)

\* ------------------------------------------------------------- constructor
\* The node objects and chart fields the constructor leaves behind for the
\* raw tree `raw` when body.clientWidth is `clientWidth`.
Build(raw, clientWidth) ==
    LET depth == HierarchyDepth(raw)
        height == HierarchyHeight(raw)
        value == NodeSum(raw)
        kids == [i \in 1..raw.n |-> ArraySort(RawChildren(raw, i), height, value)]
        h == (height[1] + 1) * RectHeight
        xs == PartitionX(raw, kids, value, h)
        ys == PartitionY(raw, depth, height[1] + 1, clientWidth)
        nodes == BreadthFirst(kids, <<1>>)
    IN  [parent |-> [i \in 1..raw.n |-> IF i = 1 THEN Null ELSE raw.par[i]],
         children |-> kids,
         depth |-> depth,
         height |-> height,
         value |-> value,
         x0 |-> [i \in 1..raw.n |-> xs[i][1]],
         x1 |-> [i \in 1..raw.n |-> xs[i][2]],
         y0 |-> [i \in 1..raw.n |-> ys[i][1]],
         y1 |-> [i \in 1..raw.n |-> ys[i][2]],
         id |-> [i \in 1..raw.n |-> IndexOf(nodes, i) - 1],
         nodes |-> nodes,
         width |-> clientWidth,
         heightPx |-> h]

\* the same objects under the names off+1 .. off+n (a second tree in the heap)
Relabel(b, off) ==
    LET ids == {i + off : i \in DOMAIN b.parent}
        shift(f) == [i \in ids |-> f[i - off]]
    IN  [parent |-> [i \in ids |-> IF b.parent[i - off] = Null THEN Null ELSE b.parent[i - off] + off],
         children |-> [i \in ids |-> [k \in 1..Len(b.children[i - off]) |-> b.children[i - off][k] + off]],
         depth |-> shift(b.depth),
         height |-> shift(b.height),
         value |-> shift(b.value),
         x0 |-> shift(b.x0),
         x1 |-> shift(b.x1),
         y0 |-> shift(b.y0),
         y1 |-> shift(b.y1)]

StaleIds == {MaxNodes + i : i \in 1..StaleRaw.n}

StaleRoot == MaxNodes + 1

\* ------------------------------------------------------------------ state
VARIABLES
    data,            \* the input tree (INode objects: value, children)
    parent,          \* node.parent
    children,        \* node.children (sorted)
    depth,           \* node.depth
    height,          \* node.height
    value,           \* node.value (set by root.sum)
    x0, x1, y0, y1,  \* node.x0, x1, y0, y1
    hide, fade,      \* node.data.hide, node.data.fade
    id,              \* node.data.id
    _nodes,          \* this._nodes
    _rootNode,       \* this._rootNode
    _currentFocus,   \* this._currentFocus
    _nodesWidth,     \* this._nodesWidth
    _nodesHeight,    \* this._nodesHeight
    _width,          \* this._width
    _height,         \* this._height
    _scaleX,         \* this._scaleX
    _scaleY,         \* this._scaleY
    layout0,         \* history: x0 / x1 as the constructor laid them out
    zoomLog          \* history: the argument of the last onZoom call and the focus
                     \* before it, and the same for the call before that one
                     \* (stale: how many calls were given a node of an earlier tree)

VARIABLES
    name,            \* node.data.name
    type,            \* node.data.type
    fill,            \* the rectangles' fill attribute
    activeElement,   \* the rectangle that has the keyboard focus, or Null
    highlighted,     \* node.highlighted (set by onSearch / onClearSearch)
    term,            \* document.getElementById("term").value
    clientWidth,     \* document.body.clientWidth
    glyph,           \* the width of one glyph of the label font, in pixels
    _isFlipped,      \* this._isFlipped()
    _letterLength,   \* this._letterLength
    _resizeTimeout,  \* this._resizeTimeout
    timers,          \* the browser's pending timeouts (their ids)
    timerSeq,        \* the id the last setTimeout returned
    texts,           \* the text elements' textContent
    cellY,           \* the y of the cells' transform attribute
    cellX,           \* the x of the cells' transform attribute
    rectWidth,       \* the rectangles' width attribute
    uiLog            \* history: the last event handled, this._width before it,
                     \* the resize events not yet followed by a debounced
                     \* render, the bursts of resize events begun and the
                     \* debounced renders run

treeVars == <<data, parent, children, depth, height, value, y0, y1, id, _nodes,
              _rootNode, _nodesHeight, _height, _scaleY, layout0, name, glyph, type>>

zoomVars == <<x0, x1, hide, fade, _currentFocus, _nodesWidth, zoomLog>>

searchVars == <<highlighted, term, fill>>

timerVars == <<_resizeTimeout, timers, timerSeq>>

renderVars == <<_width, _scaleX, _letterLength, texts, cellY, cellX, rectWidth>>

vars == <<treeVars, zoomVars, searchVars, timerVars, renderVars, clientWidth,
          _isFlipped, uiLog, activeElement>>

\* the nodes of the chart's tree
TreeNodes == {_nodes[i] : i \in 1..Len(_nodes)}

\* the state the constructor leaves for one of the raw trees `inputs`, the
\* nodes' names and library types drawn from nameSet and typeSet
ConstructedTyped(inputs, nameSet, glyphSet, typeSet) ==
    \E raw \in inputs, w \in ClientWidths, g \in glyphSet :
        \E b \in {Build(raw, w)},
           old \in {Relabel(Build(StaleRaw, w), MaxNodes)},
           names \in [1..raw.n -> nameSet],
           types \in [1..raw.n -> typeSet] :
            /\ data = raw
            /\ name = names @@ [i \in StaleIds |-> <<>>]
            /\ type = types @@ [i \in StaleIds |-> ""]
            /\ fill = [i \in 1..raw.n |-> colorHash(names[i], types[i])]
            /\ activeElement = Null
            /\ highlighted = [i \in 1..raw.n |-> FALSE]
            /\ term = <<>>
            /\ clientWidth = w
            /\ glyph = g
            /\ _isFlipped = TRUE
            /\ _resizeTimeout = 0
            /\ timers = {}
            /\ timerSeq = 0
            /\ LET scaleX == ScaleLinear(RSub(b.x1[1], b.x0[1]), Rat(w))
                   widths == [i \in 1..raw.n |-> ApplyScale(scaleX, RSub(b.x1[i], b.x0[i]))]
                   st == SetTexts(1, b.nodes, names, widths, {},
                                  [texts |-> [i \in 1..raw.n |-> <<>>], letter |-> 0], g)
               IN  /\ texts = st.texts
                   /\ _letterLength = st.letter
                   /\ cellX = [i \in 1..raw.n |-> ApplyScale(scaleX, b.x0[i])]
                   /\ rectWidth = widths
            /\ cellY = [i \in 1..raw.n |->
                          GetOffsetY(ScaleLinear(RMul(RSub(b.y1[1], b.y0[1]), Rat(b.height[1] + 1)),
                                                 Rat(b.heightPx)),
                                     b.y0[i], TRUE, b.heightPx)]
            /\ uiLog = [event |-> "load", widthBefore |-> w, pending |-> 0, bursts |-> 0,
                        renders |-> 0, key |-> 0]
            /\ parent = b.parent @@ old.parent
            /\ children = b.children @@ old.children
            /\ depth = b.depth @@ old.depth
            /\ height = b.height @@ old.height
            /\ value = b.value @@ old.value
            /\ x0 = b.x0 @@ old.x0
            /\ x1 = b.x1 @@ old.x1
            /\ y0 = b.y0 @@ old.y0
            /\ y1 = b.y1 @@ old.y1
            /\ hide = [i \in DOMAIN b.parent \cup StaleIds |-> FALSE]
            /\ fade = [i \in DOMAIN b.parent \cup StaleIds |-> FALSE]
            /\ id = b.id
            /\ _nodes = b.nodes
            /\ _rootNode = b.nodes[1]
            /\ _currentFocus = b.nodes[1]
            /\ _nodesWidth = RSub(b.x1[1], b.x0[1])
            /\ _nodesHeight = RMul(RSub(b.y1[1], b.y0[1]), Rat(b.height[1] + 1))
            /\ _width = w
            /\ _height = b.heightPx
            /\ _scaleX = ScaleLinear(RSub(b.x1[1], b.x0[1]), Rat(w))
            /\ _scaleY = ScaleLinear(RMul(RSub(b.y1[1], b.y0[1]), Rat(b.height[1] + 1)), Rat(b.heightPx))
            /\ layout0 = [x0 |-> b.x0, x1 |-> b.x1]
            /\ zoomLog = [target |-> Null, before |-> Null, previous |-> Null,
                          previousBefore |-> Null, stale |-> 0]

\* the same for nodes that carry no library type
Constructed(inputs, nameSet, glyphSet) == ConstructedTyped(inputs, nameSet, glyphSet, {""})

\* the input conforms to INode: every `value` is a number
Init == Constructed(RawTrees(NumberValues), {<<"A", "b">>}, {12})

\* the input may also lack a `value`, or carry one that is not a number
InitMalformed == Constructed(RawTrees(JsValues), {<<"A", "b">>}, {12})

\* ------------------------------------------------------- flamechartUtils
\* node.each: the node and all its descendants
RECURSIVE Subtree(_)
Subtree(n) == {n} \cup UNION {Subtree(children[n][k]) : k \in 1..Len(children[n])}

RECURSIVE StrictAncestors(_)
StrictAncestors(n) ==
    IF parent[n] = Null THEN {} ELSE {parent[n]} \cup StrictAncestors(parent[n])

\* the nodes hideSiblings(node) marks: at every level of the path from node
\* up to the root, each sibling of the path's node, with its whole subtree
RECURSIVE SiblingSubtrees(_)
SiblingSubtrees(child) ==
    IF parent[child] = Null THEN {}
    ELSE UNION {Subtree(children[parent[child]][k]) :
                    k \in {j \in 1..Len(children[parent[child]]) :
                               children[parent[child]][j] # child}}
         \cup SiblingSubtrees(parent[child])

\* hideSiblings(node): the hide flags afterwards
HideSiblings(h, node) ==
    LET marked == SiblingSubtrees(node)
    IN  [n \in DOMAIN h |-> IF n \in marked THEN TRUE ELSE h[n]]

\* fadeAncestors that marks the parent alone
FadeAncestors_ParentOnly(f, d) ==
    [n \in DOMAIN f |-> IF n = parent[d] THEN TRUE ELSE f[n]]

\* fadeAncestors(d): the fade flags afterwards
FadeAncestors(f, d) ==
    LET marked == StrictAncestors(d)
    IN  [n \in DOMAIN f |-> IF n \in marked THEN TRUE ELSE f[n]]

\* show(d) setting the flag instead of clearing it
Show_SetsFlag(flags, d) ==
    LET shown == Subtree(d)
    IN  [n \in DOMAIN flags |-> IF n \in shown THEN TRUE ELSE flags[n]]

\* show(d): clears a flag (hide, fade) on d and all its descendants
Show(flags, d) ==
    LET shown == Subtree(d)
    IN  [n \in DOMAIN flags |-> IF n \in shown THEN FALSE ELSE flags[n]]

\* ------------------------------------------------------------------ onZoom
\* onZoom without the toggle: the focus is always the clicked node
ZoomTarget_NoToggle(focus, p) == p

\* this._currentFocus = this._currentFocus === p ? p = p.parent ?? p : p
ZoomTarget(focus, p) ==
    IF focus = p THEN (IF parent[p] # Null THEN parent[p] ELSE p) ELSE p

\* a translation that also halves the coordinates
Translate_Halved(xs, rootx0) ==
    [d \in DOMAIN xs |-> RDiv(RSub(xs[d], rootx0), Rat(2))]

\* the translation applied only to the coordinates at or right of rootx0
Translate_RightOfFocus(xs, rootx0) ==
    [d \in DOMAIN xs |-> IF RLe(rootx0, xs[d]) THEN RSub(xs[d], rootx0) ELSE xs[d]]

\* a translation that never leaves a coordinate below 0
Translate_Clamped(xs, rootx0) ==
    [d \in DOMAIN xs |-> IF RLt(RSub(xs[d], rootx0), Rat(0)) THEN Rat(0)
                         ELSE RSub(xs[d], rootx0)]

\* this._rootNode.each(d => { d.x0 = d.x0 - rootx0; d.x1 = d.x1 - rootx0 })
Translate(xs, rootx0) ==
    LET each == Subtree(_rootNode)
    IN  [d \in DOMAIN xs |-> IF d \in each THEN RSub(xs[d], rootx0) ELSE xs[d]]

onZoom(p) ==
    LET q == ZoomTarget(_currentFocus, p)
        rootx0 == x0[q]
        scaleX == ScaleLinear(RSub(x1[q], x0[q]), Rat(_width))
    IN  \E faded \in {Show(FadeAncestors(fade, q), q)},
           hidden \in {Show(HideSiblings(hide, q), q)},
           shifted \in {Translate(x0, rootx0)},
           widths \in {[n \in TreeNodes |-> ApplyScale(scaleX, RSub(x1[n], x0[n]))]} :
        \* this._letterLength = 0, then zoomTexts on every text element
        \E st \in {SetTexts(1, _nodes, name, widths, {n \in TreeNodes : faded[n]},
                            [texts |-> texts, letter |-> 0], glyph)} :
        /\ _currentFocus' = q
        /\ _nodesWidth' = RSub(x1[q], x0[q])
        /\ _scaleX' = scaleX
        /\ x0' = shifted
        /\ x1' = Translate(x1, rootx0)
        /\ hide' = hidden
        /\ fade' = faded
        /\ cellY' = [n \in TreeNodes |-> GetOffsetY(_scaleY, y0[n], _isFlipped, _height)]
        \* zoomCells: translate(fade ? 0 : scaleX(x0), ...), x0 the translated one
        /\ cellX' = [n \in TreeNodes |->
                        IF faded[n] THEN Rat(0) ELSE ApplyScale(scaleX, shifted[n])]
        \* zoomRects: a hidden rectangle keeps its width, a faded one gets this._width
        /\ rectWidth' = [n \in TreeNodes |->
                            IF hidden[n] THEN rectWidth[n]
                            ELSE IF faded[n] THEN Rat(_width) ELSE widths[n]]
        /\ texts' = st.texts
        /\ _letterLength' = st.letter
        /\ uiLog' = [uiLog EXCEPT !.event = "zoom", !.widthBefore = _width]
        /\ zoomLog' = [target |-> p, before |-> _currentFocus,
                       previous |-> zoomLog.target, previousBefore |-> zoomLog.before,
                       stale |-> zoomLog.stale + (IF p \in StaleIds THEN 1 ELSE 0)]
        /\ UNCHANGED <<treeVars, searchVars, timerVars, _width, clientWidth, _isFlipped>>

\* the click listener of the rectangle of node p runs
Click(p) == onZoom(p) /\ UNCHANGED activeElement

onResetZoom == onZoom(_rootNode) /\ UNCHANGED activeElement

\* onZoom reached with a node object of an earlier tree
StaleZoom(s) == zoomLog.stale < MaxStaleZooms /\ onZoom(s) /\ UNCHANGED activeElement

Next ==
    \/ \E p \in TreeNodes : Click(p)
    \/ onResetZoom

Spec == Init /\ [][Next]_vars

NextStale ==
    \/ Next
    \/ \E s \in StaleIds : StaleZoom(s)

\* the trees of at most MaxStaleNodes nodes
InitStale == Constructed({t \in RawTrees(NumberValues) : t.n <= MaxStaleNodes}, {<<"A", "b">>}, {12})

SpecStale == InitStale /\ [][NextStale]_vars

SpecMalformed == InitMalformed /\ [][Next]_vars

\* -------------------------------------------------------------- onResize
\* the width render() lays out for, here the one of the last render
RenderWidth_Stale(bodyWidth, lastWidth) == lastWidth

\* this._width = document.body.clientWidth
RenderWidth(bodyWidth, lastWidth) == bodyWidth

\* render(): width, x scale, cell transforms and labels; it tells no faded
\* node from another and does not reset this._letterLength
Render(flipped) ==
    LET w == RenderWidth(clientWidth, _width)
        scaleX == ScaleLinear(_nodesWidth, Rat(w))
    IN  \E widths \in {[n \in TreeNodes |-> ApplyScale(scaleX, RSub(x1[n], x0[n]))]} :
        \E st \in {SetTexts(1, _nodes, name, widths, {},
                            [texts |-> texts, letter |-> _letterLength], glyph)} :
            /\ _width' = w
            /\ _scaleX' = scaleX
            /\ cellY' = [n \in TreeNodes |-> GetOffsetY(_scaleY, y0[n], flipped, _height)]
            /\ cellX' = [n \in TreeNodes |-> ApplyScale(scaleX, x0[n])]
            /\ rectWidth' = widths
            /\ texts' = st.texts
            /\ _letterLength' = st.letter

\* if (this._resizeTimeout), here never taken
HasTimeout_Never(t) == FALSE

\* if (this._resizeTimeout)
HasTimeout(t) == t # 0

\* clearTimeout that leaves the timeout pending
ClearTimeout_Keep(pending, t) == pending

\* clearTimeout(id): an id that is not pending is ignored
ClearTimeout(pending, t) == pending \ {t}

\* setTimeout that schedules nothing
SetTimeout_Drop(pending, t) == pending

\* setTimeout(() => render(), 100), returning the id t
SetTimeout(pending, t) == pending \cup {t}

\* a "resize" event of the window, the body now w pixels wide: onResize()
ResizeEvent(w) ==
    /\ timerSeq < MaxResizes
    /\ clientWidth' = w
    /\ timerSeq' = timerSeq + 1
    /\ timers' = SetTimeout(IF HasTimeout(_resizeTimeout)
                             THEN ClearTimeout(timers, _resizeTimeout) ELSE timers,
                             timerSeq + 1)
    /\ _resizeTimeout' = timerSeq + 1
    /\ uiLog' = [uiLog EXCEPT !.event = "resize", !.widthBefore = _width,
                              !.pending = @ + 1,
                              !.bursts = @ + (IF uiLog.pending = 0 THEN 1 ELSE 0)]
    /\ UNCHANGED <<treeVars, zoomVars, searchVars, renderVars, _isFlipped, activeElement>>

\* the timeout t set by onResize fires: render()
TimerFire(t) ==
    /\ t \in timers
    /\ timers' = timers \ {t}
    /\ Render(_isFlipped)
    /\ uiLog' = [uiLog EXCEPT !.event = "timer", !.widthBefore = _width,
                              !.pending = 0, !.renders = @ + 1]
    /\ UNCHANGED <<treeVars, zoomVars, searchVars, _resizeTimeout, timerSeq, clientWidth,
                   _isFlipped, activeElement>>

\* the isFlipped observable changes; its subscriber onFlip calls onResize(true)
Flip ==
    /\ _isFlipped' = ~_isFlipped
    /\ Render(~_isFlipped)
    /\ uiLog' = [uiLog EXCEPT !.event = "flip", !.widthBefore = _width]
    /\ UNCHANGED <<treeVars, zoomVars, searchVars, timerVars, clientWidth, activeElement>>

InitResize == Constructed(UnitTrees, {<<"A", "b">>}, {12})

NextResize ==
    \/ \E p \in TreeNodes : Click(p)
    \/ onResetZoom
    \/ \E w \in ViewportWidths : ResizeEvent(w)
    \/ \E t \in timers : TimerFire(t)
    \/ Flip

SpecResize == InitResize /\ [][NextResize]_vars

\* resize events, timeouts and flips alone; a pending timeout fires in the end
NextDebounce ==
    \/ \E w \in ViewportWidths : ResizeEvent(w)
    \/ \E t \in timers : TimerFire(t)
    \/ Flip

\* the steps in which a pending timeout fires: the TimerFire steps, and no
\* other step of the handlers (a resize event that clears a timeout is a
\* "resize" step)
TimerFires ==
    \E t \in timers :
        /\ timers' = timers \ {t}
        /\ uiLog' = [uiLog EXCEPT !.event = "timer", !.widthBefore = _width,
                                  !.pending = 0, !.renders = @ + 1]

SpecDebounce ==
    InitResize /\ [][NextDebounce]_vars /\ WF_<<timers, uiLog>>(TimerFires)

\* ---------------------------------------------------------------- labels
\* getRectWidth(node)
GetRectWidth(n) == ApplyScale(_scaleX, RSub(x1[n], x0[n]))

InitText == Constructed({t \in UiTrees : t.n <= MaxTextNodes}, TextNames, GlyphWidths)

\* zooms, and at most MaxTextResizes resize events with their timeouts
NextText ==
    \/ \E p \in TreeNodes : Click(p)
    \/ \E w \in ViewportWidths : timerSeq < MaxTextResizes /\ ResizeEvent(w)
    \/ \E t \in timers : TimerFire(t)

SpecText == InitText /\ [][NextText]_vars

\* ---------------------------------------------------------------- search
\* rect.highlighted = false on every rectangle, here leaving the flags alone
ClearHighlight_Keep(h) == h

\* this._rects.each(rect => { rect.highlighted = false })
ClearHighlight(h) == [n \in DOMAIN h |-> FALSE]

\* this._rects.each(rect => rect.highlighted = (name.toLocaleLowerCase().indexOf(term.toLocaleLowerCase()) !== -1))
Highlight(h, t) ==
    [n \in DOMAIN h |->
        StringIndexOf(ToLocaleLowerCase(name[n]), ToLocaleLowerCase(t)) # 0 - 1]

\* the user types t into the "term" input
SetTerm(t) ==
    /\ term' = t
    /\ uiLog' = [uiLog EXCEPT !.event = "term", !.widthBefore = _width]
    /\ UNCHANGED <<treeVars, zoomVars, timerVars, renderVars, highlighted, fill, clientWidth,
                   _isFlipped, activeElement>>

\* attr("fill", d => d.highlighted ? "red" : Color.colorHash(d.data.name, d.data.type))
Fill(h) == [n \in DOMAIN h |-> IF h[n] THEN Red ELSE colorHash(name[n], type[n])]

onSearch ==
    /\ highlighted' = Highlight(highlighted, term)
    /\ fill' = Fill(Highlight(highlighted, term))
    /\ uiLog' = [uiLog EXCEPT !.event = "search", !.widthBefore = _width]
    /\ UNCHANGED <<treeVars, zoomVars, timerVars, renderVars, term, clientWidth, _isFlipped,
                   activeElement>>

onClearSearch ==
    /\ term' = <<>>
    /\ highlighted' = ClearHighlight(highlighted)
    /\ fill' = [n \in DOMAIN highlighted |-> colorHash(name[n], type[n])]
    /\ uiLog' = [uiLog EXCEPT !.event = "clear", !.widthBefore = _width]
    /\ UNCHANGED <<treeVars, zoomVars, timerVars, renderVars, clientWidth, _isFlipped,
                   activeElement>>

InitSearch == Constructed(UnitTrees, SearchNames, {12})

NextSearch ==
    \/ \E p \in TreeNodes : Click(p)
    \/ onResetZoom
    \/ \E t \in SearchTerms : SetTerm(t)
    \/ onSearch
    \/ onClearSearch

SpecSearch == InitSearch /\ [][NextSearch]_vars

\* -------------------------------------------------------------- onKeyDown
\* e.keyCode of Enter, Escape, Left, Up, Right and Down
Enter == 13

Escape == 27

Left == 37

Up == 38

Right == 39

Down == 40

Keys == {Enter, Escape, Left, Up, Right, Down}

\* (this._rects as any)._groups[0][i]: the rectangle of the i-th node of
\* this._nodes (0-based); Null (undefined) when there is none
RectAt(i) == IF i + 1 \in 1..Len(_nodes) THEN _nodes[i + 1] ELSE Null

\* p.children.filter(node => !node.data.hide)
VisibleChildren(p) == SelectSeq(children[p], LAMBDA c : ~hide[c])

\* the same without the filter on hide
SiblingWithId_IgnoresHide(p, wanted) ==
    LET found == SelectSeq(children[parent[p]], LAMBDA c : id[c] = wanted)
    IN  IF found = <<>> THEN Null ELSE found[1]

\* p.parent.children.filter(node => node.data.id === wanted).filter(node => !node.data.hide)[0]
SiblingWithId(p, wanted) ==
    LET found == SelectSeq(children[parent[p]], LAMBDA c : id[c] = wanted /\ ~hide[c])
    IN  IF found = <<>> THEN Null ELSE found[1]

\* the rectangle onKeyDown(e, p) calls focus() on for an arrow key or Escape;
\* Null when it calls none (no such sibling, or `child` is undefined and
\* child.data throws)
KeyTarget(keyCode, p) ==
    CASE keyCode = Escape -> RectAt(0)
      [] keyCode = Up -> RectAt(id[IF parent[p] = Null THEN _rootNode ELSE parent[p]])
      [] keyCode = Down ->
            IF children[p] = <<>> THEN RectAt(id[_rootNode])
            ELSE IF VisibleChildren(p) = <<>> THEN Null
            ELSE RectAt(id[VisibleChildren(p)[1]])
      [] keyCode = Left ->
            IF parent[p] = Null \/ SiblingWithId(p, id[p] - 1) = Null THEN Null
            ELSE RectAt(id[SiblingWithId(p, id[p] - 1)])
      [] keyCode = Right ->
            IF parent[p] = Null \/ SiblingWithId(p, id[p] + 1) = Null THEN Null
            ELSE RectAt(id[SiblingWithId(p, id[p] + 1)])
      [] OTHER -> Null

\* onKeyDown(e, p): Enter zooms, the other keys move the keyboard focus
onKeyDown(keyCode, p) ==
    IF keyCode = Enter THEN onZoom(p) /\ UNCHANGED activeElement
    ELSE /\ activeElement' = (IF KeyTarget(keyCode, p) = Null THEN activeElement
                              ELSE KeyTarget(keyCode, p))
         /\ uiLog' = [uiLog EXCEPT !.event = "key", !.key = keyCode, !.widthBefore = _width]
         /\ UNCHANGED <<treeVars, zoomVars, searchVars, timerVars, renderVars, clientWidth,
                        _isFlipped>>

\* a key is pressed while a rectangle has the keyboard focus
KeyDown(keyCode) == activeElement # Null /\ onKeyDown(keyCode, activeElement)

\* the pixels of the rectangle of node n that lie inside the svg element
\* (0 .. this._width): <<left, right>>
Shown(n) ==
    LET right == RAdd(cellX[n], rectWidth[n])
    IN  <<IF RLt(cellX[n], Rat(0)) THEN Rat(0) ELSE cellX[n],
          IF RLt(Rat(_width), right) THEN Rat(_width) ELSE right>>

\* a rectangle of width 0 is not rendered, one outside the svg is clipped
Drawn(n) == RLt(Rat(0), rectWidth[n]) /\ RLt(Shown(n)[1], Shown(n)[2])

\* the rectangles painted over the row of node p after p's own
Above(p) ==
    {q \in TreeNodes : /\ Drawn(q)
                       /\ cellY[q] = cellY[p]
                       /\ IndexOf(_nodes, q) > IndexOf(_nodes, p)}

\* the pointer can hit the rectangle of node p: some pixel of it is inside
\* the svg and under no rectangle painted later
Hit(p) ==
    /\ Drawn(p)
    /\ \E c \in {Shown(p)[1]} \cup {Shown(q)[2] : q \in Above(p)} :
           /\ RLe(Shown(p)[1], c) /\ RLt(c, Shown(p)[2])
           /\ \A q \in Above(p) : ~(RLe(Shown(q)[1], c) /\ RLt(c, Shown(q)[2]))

\* a mouse click on the rectangle of node p: the rectangle (tabindex 0 or -1)
\* takes the keyboard focus and its click listener runs
MouseClick(p) == Hit(p) /\ onZoom(p) /\ activeElement' = p

\* the trees the keys are exercised on: a positive root value, no value
\* below the children's sum; a node of value 0 has a rectangle of width 0
KeyTrees ==
    {t \in RawTrees(NumberValues) :
        /\ t.val[1][1] > 0
        /\ \A i \in 1..t.n :
               t.val[i][1] >= SumSeq([k \in 1..Len(RawChildren(t, i)) |->
                                         t.val[RawChildren(t, i)[k]][1]])}

InitKeys == Constructed(KeyTrees, {<<"A", "b">>}, {12})

NextKeys ==
    \/ \E p \in TreeNodes : MouseClick(p)
    \/ \E k \in Keys : KeyDown(k)
    \/ onResetZoom

SpecKeys == InitKeys /\ [][NextKeys]_vars

\* zooms on rectangles that are not hidden, and resets
NextVisible ==
    \/ \E p \in TreeNodes : ~hide[p] /\ Click(p)
    \/ onResetZoom

SpecVisible == Init /\ [][NextVisible]_vars

\* -------------------------------------------------------------- viewport
\* the trees of at most MaxViewportNodes nodes, some with a node of value 0
ViewportTrees == {t \in KeyTrees : t.n <= MaxViewportNodes}

InitViewport == Constructed(ViewportTrees, {<<"A", "b">>}, {12})

\* clicks, keys, at most MaxViewportResizes resize events, timeouts and flips
\* in any order
NextViewport ==
    \/ \E p \in TreeNodes : MouseClick(p)
    \/ \E k \in Keys : KeyDown(k)
    \/ \E w \in ViewportWidths : timerSeq < MaxViewportResizes /\ ResizeEvent(w)
    \/ \E t \in timers : TimerFire(t)
    \/ Flip

SpecViewport == InitViewport /\ [][NextViewport]_vars

\* resize events with zooms, searches and flips between them; a pending
\* timeout fires in the end
InitSettle == Constructed({t \in UnitTrees : t.n <= MaxViewportNodes}, {<<"A", "b">>}, {12})

NextSettle ==
    \/ \E p \in TreeNodes : Click(p)
    \/ \E t \in SearchTerms : SetTerm(t)
    \/ onSearch
    \/ onClearSearch
    \/ \E w \in ViewportWidths : ResizeEvent(w)
    \/ \E t \in timers : TimerFire(t)
    \/ Flip

SpecSettle == InitSettle /\ [][NextSettle]_vars /\ WF_<<timers, uiLog>>(TimerFires)

\* ---------------------------------------------------------------- colours
\* names for the colours: of 6 and of 7 characters, with a module name and
\* extra info to strip, and their library types
HashNames ==
    {<<"a", "b", "a", "b", "a", "b">>,
     <<"a", "b", "a", "b", "a", "b", "a">>,
     <<"a", "b", "a", "b", "a", "b", "B">>,
     <<"B", Grave, "a", "b", "a", "b", "a", "b", "b", "A", "(", "a">>,
     <<"A">>}

NodeTypes == {"", "Kernel"}

InitColor == ConstructedTyped({t \in UnitTrees : t.n <= 2}, HashNames, {12}, NodeTypes)

NextColor ==
    \/ \E t \in SearchTerms : SetTerm(t)
    \/ onSearch
    \/ onClearSearch

SpecColor == InitColor /\ [][NextColor]_vars

\* ================================================================ claims
Zoomed == zoomLog.target # Null

Width(n) == RSub(x1[n], x0[n])

ChildSet(p) == {children[p][k] : k \in 1..Len(children[p])}

Parents == {p \in TreeNodes : children[p] # <<>>}

ChildValueSum(p) == SumSeq([k \in 1..Len(children[p]) |-> value[children[p][k]]])

\* C1: after any zoomTo, with f the resulting focus, exactly the strict
\* ancestors of f are faded, exactly f and its descendants are neither hidden
\* nor faded, and every other node is hidden.
C1_VisibilityPartition ==
    Zoomed =>
        LET f == _currentFocus
        IN  /\ {n \in TreeNodes : fade[n]} = StrictAncestors(f)
            /\ {n \in TreeNodes : ~hide[n] /\ ~fade[n]} = Subtree(f)
            /\ \A n \in TreeNodes \ (StrictAncestors(f) \cup Subtree(f)) : hide[n]

\* C2 as stated: two consecutive zoomTo calls on the same non-root node n
\* leave the focus on n's parent.
C2_TwiceLeavesParent ==
    \A n \in TreeNodes :
        (zoomLog.target = n /\ zoomLog.previous = n /\ parent[n] # Null)
            => _currentFocus = parent[n]

\* C2 amended: zoomTo(n) on the current focus n makes the focus n.parent (n
\* itself when n is the root); zoomTo(n) on another node makes n the focus; and
\* two consecutive zoomTo calls on the same non-root node n, the first made
\* when n is not the focus, leave the focus on n's parent.
C2_ZoomToggle ==
    Zoomed =>
        LET n == zoomLog.target
        IN  /\ zoomLog.before = n =>
                  _currentFocus = (IF parent[n] # Null THEN parent[n] ELSE n)
            /\ zoomLog.before # n => _currentFocus = n
            /\ (zoomLog.previous = n /\ zoomLog.previousBefore # n /\ parent[n] # Null)
                  => _currentFocus = parent[n]

C2_Witness ==
    /\ Zoomed
    /\ zoomLog.previous = zoomLog.target
    /\ zoomLog.previousBefore # zoomLog.target
    /\ parent[zoomLog.target] # Null
    /\ _currentFocus = parent[zoomLog.target]

\* C3: with f the current focus, every node's x0 and x1 are those of the
\* initial layout minus f's initial x0, and the effective layout width
\* (_nodesWidth) is f.x1 - f.x0.
C3_TranslatedToFocus ==
    LET f == _currentFocus
    IN  /\ \A n \in TreeNodes :
              /\ x0[n] = RSub(layout0.x0[n], layout0.x0[f])
              /\ x1[n] = RSub(layout0.x1[n], layout0.x0[f])
        /\ x0[f] = Rat(0)
        /\ _nodesWidth = RSub(x1[f], x0[f])

C3_Witness ==
    /\ zoomLog.previous # Null
    /\ zoomLog.previous # zoomLog.target
    /\ layout0.x0[_currentFocus] # Rat(0)
    /\ layout0.x0[zoomLog.before] # Rat(0)
    /\ layout0.x0[zoomLog.before] # layout0.x0[_currentFocus]

\* sibling intervals share at most endpoints
SiblingsDisjoint(p) ==
    \A c \in ChildSet(p), d \in ChildSet(p) :
        c # d => (RLe(x1[c], x0[d]) \/ RLe(x1[d], x0[c]))

\* the union of the children's intervals is the parent's interval
ChildrenCover(p) ==
    /\ \E c \in ChildSet(p) : x0[c] = x0[p]
    /\ \E c \in ChildSet(p) : x1[c] = x1[p]
    /\ \A c \in ChildSet(p) : RLe(x0[p], x0[c]) /\ RLe(x1[c], x1[p])
    /\ \A c \in ChildSet(p) :
           x1[c] # x1[p] => \E d \in ChildSet(p) : RLe(x0[d], x1[c]) /\ RLt(x1[c], x1[d])

\* every declared value is positive and at least the sum of the children's
WellFormed ==
    \A n \in TreeNodes : data.val[n][1] > 0 /\ SelfValue(data, n) >= 0

\* C4 as stated: the children's intervals are pairwise disjoint and their
\* union is the parent's interval (read on the well-formed trees alone, so
\* that no zero or inconsistent value is what breaks it).
C4_ChildrenPartitionParent ==
    WellFormed => \A p \in Parents : SiblingsDisjoint(p) /\ ChildrenCover(p)

\* C4 amended: the children's intervals are pairwise disjoint (sharing at
\* most endpoints) and lie side by side from the parent's x0; together they
\* span (parent width) * (sum of the children's subtree values) / (parent's
\* subtree value), which is the whole parent only when the parent's self
\* value is 0, and nothing when the parent's subtree value is 0.
C4_ChildrenSideBySide ==
    \A p \in Parents :
        LET c == children[p]
            last == c[Len(c)]
        IN  /\ SiblingsDisjoint(p)
            /\ x0[c[1]] = x0[p]
            /\ \A k \in 1..(Len(c) - 1) : x0[c[k + 1]] = x1[c[k]]
            /\ RMul(RSub(x1[last], x0[p]), Rat(value[p]))
                   = RMul(Width(p), Rat(IF value[p] = 0 THEN 0 ELSE ChildValueSum(p)))
            /\ value[p] = 0 => x1[last] = x0[p]

C4_Witness ==
    /\ \E p \in Parents :
           /\ Len(children[p]) >= 2
           /\ \A c \in ChildSet(p) : RLt(x0[c], x1[c])
    /\ \E p \in Parents :
           /\ value[p] > ChildValueSum(p)
           /\ RLt(x1[children[p][Len(children[p])]], x1[p])
           /\ RLt(x0[p], x1[children[p][Len(children[p])]])

\* C5: every non-root node's [x0, x1] lies inside its parent's [x0, x1].
C5_ChildInsideParent ==
    \A n \in TreeNodes :
        parent[n] # Null =>
            /\ RLe(x0[parent[n]], x0[n])
            /\ RLe(x1[n], x1[parent[n]])

\* a missing or malformed declared value read as 0
AsZero(v) == IF v = NaN THEN 0 ELSE v[1]

ZeroFilled(raw) == [raw EXCEPT !.val = [i \in 1..raw.n |-> Num(AsZero(raw.val[i]))]]

DeclaredSelf(n) ==
    LET kids == RawChildren(data, n)
    IN  AsZero(data.val[n]) - SumSeq([k \in 1..Len(kids) |-> AsZero(data.val[kids[k]])])

\* C6: subtreeValue(n) = selfValue(n) + the sum of subtreeValue over n's
\* children, with selfValue(n) = declared value of n minus the declared
\* values of its children; so subtreeValue(n) is n's declared value.
C6_ValueConservation ==
    \A n \in TreeNodes :
        /\ value[n] = DeclaredSelf(n) + ChildValueSum(n)
        /\ value[n] = AsZero(data.val[n])

C6_Witness ==
    \E p \in Parents :
        /\ DeclaredSelf(p) > 0
        /\ ChildValueSum(p) > 0
        /\ \E c \in ChildSet(p) : children[c] # <<>>

\* C7: for every non-root node n whose parent p has subtreeValue(p) > 0,
\* (n.x1 - n.x0) * subtreeValue(p) = (p.x1 - p.x0) * subtreeValue(n), after
\* layout and after every zoomTo.
C7_WidthProportional ==
    \A n \in TreeNodes :
        (parent[n] # Null /\ value[parent[n]] > 0) =>
            RMul(Width(n), Rat(value[parent[n]])) = RMul(Width(parent[n]), Rat(value[n]))

C7_Witness ==
    /\ Zoomed
    /\ parent[_currentFocus] # Null
    /\ \E n \in TreeNodes :
           /\ parent[n] # Null
           /\ value[n] > 0
           /\ value[parent[n]] > value[n]
           /\ x0[n] # layout0.x0[n]

\* C8: when the children's declared values sum to more than the node's
\* declared value, build fails or clamps the self value to zero: a negative
\* self value never enters the layout.  (The constructor has no failing exit.)
C8_NoNegativeSelf ==
    \A n \in TreeNodes : SelfValue(data, n) >= 0

\* C9: a node whose value is missing or not a number is treated exactly as
\* if its value were 0: every node's self value and subtree value are those
\* of the same tree with that value set to 0.
\* (Read on the trees whose totals are consistent once the value is 0, so
\* that no negative self value is what breaks it.)
C9_MissingAsZero ==
    (\A m \in TreeNodes : SelfValue(ZeroFilled(data), m) >= 0) =>
        \A n \in TreeNodes :
            /\ value[n] = NodeValue(ZeroFilled(data), n)
            /\ SelfValue(data, n) = SelfValue(ZeroFilled(data), n)

\* C10: zoomTo with a node that is not in the current tree is a no-op: the
\* focus, every node's coordinates, the effective layout width and every
\* hide / fade flag are unchanged.
C10_StaleZoomNoOp ==
    [][\A s \in StaleIds :
           StaleZoom(s) =>
               /\ _currentFocus' = _currentFocus
               /\ _nodesWidth' = _nodesWidth
               /\ \A n \in TreeNodes :
                      /\ x0'[n] = x0[n] /\ x1'[n] = x1[n]
                      /\ hide'[n] = hide[n] /\ fade'[n] = fade[n]]_vars

\* C11: zoomTo(root) while the focus is the root changes neither the focus,
\* nor any node's x0/x1, nor the effective layout width, nor any hide/fade
\* flag; in a single-node tree every zoom is such a no-op and the root keeps
\* the full layout rectangle ([0, _height] by [0, _width] of the partition).
C11_RootZoomNoOp ==
    [][/\ (_currentFocus = _rootNode /\ zoomLog'.target = _rootNode /\ uiLog'.event = "zoom")
            => UNCHANGED <<_currentFocus, x0, x1, _nodesWidth, hide, fade>>
       /\ (data.n = 1 /\ uiLog'.event = "zoom")
            => /\ UNCHANGED <<_currentFocus, x0, x1, _nodesWidth, hide, fade>>
               /\ x0'[_rootNode] = Rat(0) /\ x1'[_rootNode] = Rat(_height)
               /\ y0'[_rootNode] = Rat(0) /\ y1'[_rootNode] = Rat(_width)]_vars

C11_Witness ==
    /\ data.n > 1
    /\ _currentFocus = _rootNode
    /\ zoomLog.target = _rootNode
    /\ zoomLog.before = _rootNode
    /\ zoomLog.previous \notin {Null, _rootNode}

\* C20: zoomTo never changes the tree structure (parents, children and their
\* order), any node's value, navigation id or name, any node's width
\* x1 - x0, or any node's y0/y1.
C20_ZoomPreservesStructure ==
    [][uiLog'.event = "zoom" =>
          /\ UNCHANGED <<data, parent, children, depth, height, value, id, name, y0, y1,
                         _nodes, _rootNode>>
          /\ \A n \in TreeNodes : RSub(x1'[n], x0'[n]) = RSub(x1[n], x0[n])]_vars

C20_Witness ==
    /\ Zoomed
    /\ _currentFocus # _rootNode
    /\ \E n \in TreeNodes : x0[n] # layout0.x0[n] /\ RLt(x0[n], x1[n])
    /\ \E n \in TreeNodes : hide[n]
    /\ \E n \in TreeNodes : fade[n]

\* s contains t as a substring
Contains(s, t) ==
    \E i \in 1..(Len(s) - Len(t) + 1) : \A k \in 1..Len(t) : s[i + k - 1] = t[k]

\* two characters equal up to case
SameLetter(c, d) ==
    \/ c = d
    \/ {c, d} = {"a", "A"}
    \/ {c, d} = {"b", "B"}

\* s contains t as a substring, case ignored
ContainsIgnoringCase(s, t) ==
    \E i \in 1..(Len(s) - Len(t) + 1) :
        \A k \in 1..Len(t) : SameLetter(s[i + k - 1], t[k])

\* C12: after search(term), every node of the tree (hidden, faded or shown)
\* is highlighted if and only if its lower-cased name contains the
\* lower-cased term as a substring, whatever was searched before.
C12_SearchHighlights ==
    uiLog.event = "search" =>
        \A n \in TreeNodes : highlighted[n] <=> ContainsIgnoringCase(name[n], term)

C12_Witness ==
    /\ uiLog.event = "search"
    /\ term # <<>>
    /\ \E n \in TreeNodes : highlighted[n] /\ hide[n] /\ ~Contains(name[n], term)
    /\ \E n \in TreeNodes : ~highlighted[n]

\* C13: search and clearSearch leave the focus, all coordinates, the
\* effective layout width and every hide/fade flag unchanged; clearSearch
\* sets highlighted to false on every node; zoomTo leaves every node's
\* highlighted flag unchanged.
C13_HighlightIndependentOfZoom ==
    [][/\ uiLog'.event \in {"search", "clear"}
            => UNCHANGED <<_currentFocus, x0, x1, y0, y1, _nodesWidth, hide, fade>>
       /\ uiLog'.event = "clear" => \A n \in TreeNodes : ~highlighted'[n]
       /\ uiLog'.event = "zoom" => UNCHANGED highlighted]_vars

C13_Witness ==
    /\ uiLog.event = "clear"
    /\ _currentFocus # _rootNode
    /\ \E n \in TreeNodes : hide[n]
    /\ \A n \in TreeNodes : ~highlighted[n]

\* C14: a burst of non-forced resize events, each arriving before the timer
\* of the one before it has fired, gets exactly one debounced re-layout, run
\* after the last event of the burst: the renders run are the bursts begun
\* less the one still open; a timer that has fired leaves no timer behind
\* and has laid out for the width of the last event; and an open burst is
\* closed by a render in the end.
C14_OneRenderPerBurst ==
    /\ [](/\ uiLog.renders = uiLog.bursts - (IF uiLog.pending > 0 THEN 1 ELSE 0)
          /\ uiLog.event = "timer" => (timers = {} /\ _width = clientWidth))
    /\ ((uiLog.pending > 0) ~> (uiLog.pending = 0))

C14_Witness ==
    /\ uiLog.event = "timer"
    /\ timerSeq = MaxResizes
    /\ uiLog.bursts = 1
    /\ uiLog.renders = 1
    /\ _width # uiLog.widthBefore

\* C15: under any interleaving of resize events, timer firings, flips and
\* zooms at most one debounced re-layout is pending, and it is the one the
\* last resize event scheduled.
C15_AtMostOnePending ==
    /\ Cardinality(timers) <= 1
    /\ timers \subseteq {_resizeTimeout}

C15_Witness ==
    /\ uiLog.event = "resize"
    /\ uiLog.pending >= 2
    /\ timers = {timerSeq}

\* C16: a flip re-renders inside the flip itself, for the viewport width of
\* that moment and the new orientation; it neither schedules nor cancels a
\* timer, so a re-layout pending before it is pending after it.
C16_FlipRendersAtOnce ==
    [][uiLog'.event = "flip" =>
          /\ _isFlipped' = ~_isFlipped
          /\ _width' = clientWidth
          /\ _scaleX' = ScaleLinear(_nodesWidth, Rat(clientWidth))
          /\ \A n \in TreeNodes :
                 cellY'[n] = IF _isFlipped' THEN ApplyScale(_scaleY, y0[n])
                             ELSE RSub(RSub(Rat(_height), Rat(RectHeight)),
                                       ApplyScale(_scaleY, y0[n]))
          /\ UNCHANGED <<timers, _resizeTimeout, timerSeq>>]_vars

C16_Witness ==
    /\ uiLog.event = "flip"
    /\ timers # {}
    /\ _width # uiLog.widthBefore
    /\ ~_isFlipped
    /\ height[_rootNode] > 0

\* the vertical scale Y
ScaleY(v) == ApplyScale(_scaleY, v)

Label(n) == GetRectText(name[n], GetRectWidth(n), _letterLength)

\* C17: whenever the text fitter returns a non-empty label, (number of
\* characters of the label, ellipsis included) * glyph width <= the
\* rectangle's pixel width.
C17_LabelFits ==
    \A n \in TreeNodes :
        Label(n) # <<>> => RLe(Rat(Len(Label(n)) * _letterLength), GetRectWidth(n))

\* C18: a rectangle whose pixel width is zero or below the label-hide
\* threshold (MaxWidth, and the 4 pixels of margin) gets the empty label, and
\* the text fitter never divides by a glyph width of 0.
C18_NarrowHiddenNoDivByZero ==
    \A n \in TreeNodes :
        /\ RLt(GetRectWidth(n), Rat(MaxWidth + 4)) => Label(n) = <<>>
        /\ FitDivisor(name[n], GetRectWidth(n), _letterLength) # <<0>>

C18_Witness ==
    /\ _letterLength = 0
    /\ \E n \in TreeNodes : Label(n) = name[n] /\ Len(name[n]) > 2
    /\ \E n \in TreeNodes : GetRectWidth(n) = Rat(0) /\ name[n] # <<>>
    /\ uiLog.event = "timer"

\* the first k characters of s
Prefix(s, k) == SubSeq(s, 1, IF Len(s) < k THEN Len(s) ELSE k)

\* C24: the name hash depends only on the first 6 characters of the stripped
\* name: two names that agree on them have the same hash, and rectangles of
\* one library type that are not highlighted then have the same fill.
C24_HashOfFirstSix ==
    \A m, n \in TreeNodes :
        Prefix(StrippedName(name[m]), 6) = Prefix(StrippedName(name[n]), 6)
            => /\ generateHash(StrippedName(name[m])) = generateHash(StrippedName(name[n]))
               /\ (type[m] = type[n] /\ ~highlighted[m] /\ ~highlighted[n])
                      => fill[m] = fill[n]

\* the number of nodes in the subtree of n
SubtreeSize(n) == Cardinality(Subtree(n))

\* C21 as stated: the ids are those of a depth-first pre-order walk: the root
\* has 0, a node's id is smaller than every other id of its subtree, and the
\* ids of a subtree form one contiguous range.
C21_PreOrderIds ==
    /\ id[_rootNode] = 0
    /\ \A n \in TreeNodes :
           {id[d] : d \in Subtree(n)} = id[n]..(id[n] + SubtreeSize(n) - 1)

\* m is before n in the order of the levels: on a level nearer to the root,
\* or on the same level under a parent that is before n's parent, or under
\* the same parent and before n among its children
RECURSIVE LevelBefore(_, _)
LevelBefore(m, n) ==
    \/ depth[m] < depth[n]
    \/ /\ depth[m] = depth[n]
       /\ m # n
       /\ IF parent[m] = parent[n]
          THEN IndexOf(children[parent[m]], m) < IndexOf(children[parent[n]], n)
          ELSE LevelBefore(parent[m], parent[n])

\* C21 (amended): the ids are those of a breadth-first walk, level by level
\* and over each node's children in order: the ids are 0 .. n-1 with 0 for
\* the root, a node's id is smaller than every other id of its subtree, and
\* the children of one parent have consecutive ids; the ids of a subtree are
\* in general not contiguous.
C21_BreadthFirstIds ==
    /\ id[_rootNode] = 0
    /\ {id[n] : n \in TreeNodes} = 0..(Len(_nodes) - 1)
    /\ \A m, n \in TreeNodes : LevelBefore(m, n) <=> id[m] < id[n]
    /\ \A n \in TreeNodes : \A d \in Subtree(n) \ {n} : id[n] < id[d]

\* a tree in which the two walks differ: some subtree's ids leave a gap
C21_Witness ==
    /\ C21_BreadthFirstIds
    /\ \E n \in TreeNodes :
           {id[d] : d \in Subtree(n)} # id[n]..(id[n] + SubtreeSize(n) - 1)

\* the child of p's parent that is `off` places from p in the children's
\* (left-to-right layout) order, Null when there is none
SiblingAt(p, off) ==
    IF parent[p] = Null THEN Null
    ELSE LET sibs == children[parent[p]]
             k == IndexOf(sibs, p) + off
         IN  IF k \in 1..Len(sibs) THEN sibs[k] ELSE Null

\* where Left (off = -1) or Right (off = 1) on node p has to leave the focus
Neighbour(p, off) ==
    IF SiblingAt(p, off) # Null /\ ~hide[SiblingAt(p, off)] THEN SiblingAt(p, off) ELSE p

\* C22: the children of one parent carry consecutive ids in left-to-right
\* layout order, and a Left (Right) key moves the keyboard focus to the
\* sibling immediately to the left (right) when it is not hidden, and leaves
\* the focus where it is otherwise.
C22_LeftRightSibling ==
    /\ [](\A p \in Parents : \A k \in 1..(Len(children[p]) - 1) :
              /\ id[children[p][k + 1]] = id[children[p][k]] + 1
              /\ RLe(x0[children[p][k]], x0[children[p][k + 1]]))
    /\ [][(uiLog'.event = "key" /\ activeElement # Null)
              => /\ uiLog'.key = Left => activeElement' = Neighbour(activeElement, 0 - 1)
                 /\ uiLog'.key = Right => activeElement' = Neighbour(activeElement, 1)]_vars

\* a Left key has moved the focus onto a middle child, and a hidden sibling
\* has stopped a key somewhere
C22_Witness ==
    /\ uiLog.event = "key" /\ uiLog.key = Left /\ activeElement # Null
    /\ SiblingAt(activeElement, 1) # Null
    /\ SiblingAt(activeElement, 0 - 1) # Null
    /\ ~hide[SiblingAt(activeElement, 0 - 1)]

\* C23: a parent of subtree value 0 with k >= 1 children gives each child
\* the share (parent width / k) of its width.
C23_ZeroParentEqualShares ==
    \A p \in Parents :
        value[p] = 0 =>
            \A k \in 1..Len(children[p]) :
                Width(children[p][k]) = RDiv(Width(p), Rat(Len(children[p])))

\* C26: when zooms are only applied to nodes that are not hidden, the hidden
\* nodes are exactly those neither on the path from the root to the focus nor
\* in the focus subtree, the faded nodes are exactly the strict ancestors of
\* the focus, and no node is both hidden and faded.
C26_VisibilityOfFocus ==
    LET f == _currentFocus
    IN  /\ {n \in TreeNodes : hide[n]} = TreeNodes \ (StrictAncestors(f) \cup Subtree(f))
        /\ {n \in TreeNodes : fade[n]} = StrictAncestors(f)
        /\ \A n \in TreeNodes : ~(hide[n] /\ fade[n])

\* after a second zoom: a focus two levels down, with hidden nodes
C26_Witness ==
    /\ zoomLog.previous # Null
    /\ depth[_currentFocus] >= 2
    /\ \E n \in TreeNodes : hide[n]
    /\ C26_VisibilityOfFocus

\* C27: after onResetZoom (a zoom on the root that is not the toggle of the
\* root itself) the focus is the root, no node is hidden or faded, and x0,
\* x1 and the effective layout width are those of the initial layout.
C27_ResetRestoresLayout ==
    (Zoomed /\ zoomLog.target = _rootNode) =>
        /\ _currentFocus = _rootNode
        /\ \A n \in TreeNodes : ~hide[n] /\ ~fade[n]
        /\ \A n \in TreeNodes : x0[n] = layout0.x0[n] /\ x1[n] = layout0.x1[n]
        /\ _nodesWidth = RSub(layout0.x1[_rootNode], layout0.x0[_rootNode])

\* a reset from a focus that the zoom had translated to the left
C27_Witness ==
    /\ Zoomed /\ zoomLog.target = _rootNode
    /\ zoomLog.before # _rootNode
    /\ RLt(Rat(0), layout0.x0[zoomLog.before])
    /\ _currentFocus = _rootNode
    /\ \A n \in TreeNodes : x0[n] = layout0.x0[n]

\* C28: for a tree of positive root value the effective layout width is
\* strictly positive in every state reached by clicks, Enter, arrow keys and
\* reset-zoom.
C28_PositiveLayoutWidth == RLt(Rat(0), _nodesWidth)

\* C29: the keyboard focus is on a node that is not hidden, and Up, Down,
\* Left, Right and Escape resolve to a node that is not hidden; Down on a node
\* with children finds its left-most child that is not hidden.
C29_KeysResolveVisible ==
    activeElement # Null =>
        /\ ~hide[activeElement]
        /\ \A k \in {Up, Down, Left, Right, Escape} :
               KeyTarget(k, activeElement) # Null => ~hide[KeyTarget(k, activeElement)]
        /\ \A k \in {Up, Down, Escape} : KeyTarget(k, activeElement) # Null
        /\ children[activeElement] # <<>> =>
               \E i \in 1..Len(children[activeElement]) :
                   /\ KeyTarget(Down, activeElement) = children[activeElement][i]
                   /\ ~hide[children[activeElement][i]]
                   /\ \A j \in 1..(i - 1) : hide[children[activeElement][j]]

\* C25: whenever no debounced re-layout is pending, the X map sends
\* [0, effective layout width] onto [0, current viewport width]: the focus
\* node's rectangle starts at pixel 0 and is as wide as the viewport.
C25_ScaleFitsViewport ==
    timers = {} =>
        /\ _scaleX = ScaleLinear(_nodesWidth, Rat(clientWidth))
        /\ ApplyScale(_scaleX, Rat(0)) = Rat(0)
        /\ ApplyScale(_scaleX, _nodesWidth) = Rat(clientWidth)
        /\ ApplyScale(_scaleX, x0[_currentFocus]) = Rat(0)
        /\ GetRectWidth(_currentFocus) = Rat(clientWidth)

\* C30: after a resize event a timeout is pending, no zoom, search or flip
\* cancels it, and (a pending timeout firing in the end, the resize events
\* having stopped) a re-layout runs after the last resize event and leaves
\* the stored width equal to the width of the viewport.
C30_RelayoutAfterLastResize ==
    /\ [](uiLog.event = "resize" => timers # {})
    /\ [][uiLog'.event \notin {"resize", "timer"} => UNCHANGED <<timers, _resizeTimeout>>]_vars
    /\ (uiLog.event = "resize") ~>
           (uiLog.event = "timer" /\ timers = {} /\ _width = clientWidth)

\* the re-layout has run after a resize that a zoom, a search or a flip
\* followed while the timeout was pending
C30_Witness ==
    /\ uiLog.event = "timer"
    /\ _width = clientWidth
    /\ _width # 100
    /\ Zoomed
    /\ \E n \in TreeNodes : highlighted[n]
    /\ ~_isFlipped

====
